---------------------------- MODULE Spec2Model ----------------------------
(***************************************************************************)
(* Model of the zenoh video player: the pipeline supervisor in its two     *)
(* drafts (run_loop of decoder.rs, gstreamer_decode_loop of main.rs), the  *)
(* ingest channel, the shared pipeline holder, the consumer's shutdown,    *)
(* the keyframe scanner and the CDR wire decoder of main.rs.               *)
(***************************************************************************)
EXTENDS Integers, Sequences, FiniteSets, TLC

VARIABLES
    variant,              \* which supervisor draft runs: "run_loop" | "gstreamer_decode_loop"
    pc,                   \* position of the supervisor thread
    h264_rx,              \* units queued in the mpsc channel h264_tx -> h264_rx
    tx_alive,             \* the ingest thread still owns h264_tx
    sent,                 \* ghost: every unit the ingest thread enqueued, in order
    pipeline_holder,      \* Arc<Mutex<Option<Element>>>: 0 is None, n is the pipeline of build n
    playing,              \* ids of the pipelines whose state is Playing
    builds,               \* number of pipelines constructed; the current pipeline's id
    bus,                  \* messages posted on the current pipeline's bus, not yet popped
    got_error,            \* the got_error flag of the current cycle
    bus_thread,           \* run_loop's bus monitor thread: "idle" | "watching" | "done"
    pump,                 \* gstreamer_decode_loop's pump thread: "idle" | "running" | "done"
    waiting_for_keyframe, \* the pump's keyframe gate (main.rs only)
    pts_ns,               \* next presentation timestamp of the current cycle
    pushed,               \* ghost: every push_buffer call, in order
    app_dropped,          \* VideoPlayerApp::drop has run
    cancelled,            \* ghost: drop stopped the pipeline the supervisor was playing
    backoffs,             \* ghost: number of 500 ms sleeps completed
    reported,             \* ghost: number of times a monitor set got_error
    last_report,          \* ghost: kind of the message that made the monitor report, this cycle
    posted,               \* ghost: number of error/eos messages the backend posted
    push_failed,          \* ghost: cycles in which push_buffer returned an error
    buf,                  \* the buffer handed to decode_cdr_compressed_video
    wire,                 \* ghost: how buf was built (declared lengths, truncation)
    result,               \* what decode_cdr_compressed_video returned for buf
    rgba_rx,              \* frames queued in the sync_channel rgba_tx -> rgba_rx
    frames_made,          \* ghost: number of new_sample callbacks run; the newest frame's id
    upd,                  \* position of VideoPlayerApp::update: "idle" | "drain" | "show"
    latest_frame,         \* update's local latest_frame: 0 is None, n is frame n
    texture,              \* the frame the consumer shows: 0 is None
    frame_count,          \* VideoPlayerApp::frame_count
    available,            \* decoder elements ElementFactory::make can instantiate now
    decoder_name,         \* decoder_name of the pipeline built last
    count                 \* the subscriber loop's message counter

vars == << variant, pc, h264_rx, tx_alive, sent, pipeline_holder, playing, builds,
           bus, got_error, bus_thread, pump, waiting_for_keyframe, pts_ns, pushed,
           app_dropped, cancelled, backoffs, reported, last_report, posted,
           push_failed, buf, wire, result, rgba_rx, frames_made, upd, latest_frame,
           texture, frame_count, available, decoder_name, count >>

supVars == << variant, pc, h264_rx, tx_alive, sent, pipeline_holder, playing, builds,
              bus, got_error, bus_thread, pump, waiting_for_keyframe, pts_ns, pushed,
              app_dropped, cancelled, backoffs, reported, last_report, posted,
              push_failed, available, decoder_name, count >>

decVars == << buf, wire, result >>

selVars == << available, decoder_name >>

sinkVars == << rgba_rx, frames_made, upd, latest_frame, texture, frame_count >>

-----------------------------------------------------------------------------
(* Bounds of the exploration *)

MaxUnits == 3

MaxErrors == 2

MaxPushFail == 1

MaxPad == 4

MaxGap == 2

MaxScanLen == 6

MaxFrames == 4

MaxMsgs == 2

(* Program constants *)

frame_duration_ns == 33333333

NoPipeline == 0

rgba_capacity == 2

NoFrame == 0

-----------------------------------------------------------------------------
(* Elementary units the ingest thread can forward: Annex-B chunks *)

IdrUnit == << 0, 0, 0, 1, 101 >>

SliceUnit == << 0, 0, 0, 1, 65 >>

UnitPool == { IdrUnit, SliceUnit }

(* data[i] with the source's 0-based index *)
At(data, i) == data[i + 1]

RECURSIVE ScanFromShortGuard(_, _)
ScanFromShortGuard(data, i) ==
    IF ~(i + 3 < Len(data)) THEN FALSE
    ELSE IF At(data, i) = 0 /\ At(data, i + 1) = 0 /\ At(data, i + 2) = 0
            /\ At(data, i + 3) = 1
         THEN IF i + 4 < Len(data) /\ (At(data, i + 4) % 32) \in {5, 7}
              THEN TRUE
              ELSE ScanFromShortGuard(data, i + 4)
    ELSE IF At(data, i) = 0 /\ At(data, i + 1) = 0 /\ At(data, i + 2) = 1
         THEN IF i + 3 < Len(data) /\ (At(data, i + 3) % 32) \in {5, 7}
              THEN TRUE
              ELSE ScanFromShortGuard(data, i + 3)
    ELSE ScanFromShortGuard(data, i + 1)

(* the scan loop of h264_contains_keyframe, from index i *)
RECURSIVE ScanFrom(_, _)
ScanFrom(data, i) ==
    IF ~(i + 4 < Len(data)) THEN FALSE
    ELSE IF At(data, i) = 0 /\ At(data, i + 1) = 0 /\ At(data, i + 2) = 0
            /\ At(data, i + 3) = 1
         THEN IF i + 4 < Len(data) /\ (At(data, i + 4) % 32) \in {5, 7}
              THEN TRUE
              ELSE ScanFrom(data, i + 4)
    ELSE IF At(data, i) = 0 /\ At(data, i + 1) = 0 /\ At(data, i + 2) = 1
         THEN IF i + 3 < Len(data) /\ (At(data, i + 3) % 32) \in {5, 7}
              THEN TRUE
              ELSE ScanFrom(data, i + 3)
    ELSE ScanFrom(data, i + 1)

h264_contains_keyframe(data) == ScanFrom(data, 0)

(* the 4-byte start code test at index i, as the && chain evaluates it *)
StartCode4(data, i) ==
    At(data, i) = 0 /\ At(data, i + 1) = 0 /\ At(data, i + 2) = 0 /\ At(data, i + 3) = 1

(* the 3-byte start code test at index i *)
StartCode3(data, i) ==
    At(data, i) = 0 /\ At(data, i + 1) = 0 /\ At(data, i + 2) = 1

(* the indices a && chain of comparisons reads: data[i + k] is compared with want[k + 1],
   and the chain stops at the first comparison that fails *)
RECURSIVE ChainReads(_, _, _, _)
ChainReads(data, i, want, k) ==
    IF k >= Len(want) THEN {}
    ELSE {i + k} \cup (IF i + k < Len(data) /\ At(data, i + k) = want[k + 1]
                       THEN ChainReads(data, i, want, k + 1)
                       ELSE {})

(* the indices of data that one turn of the scan loop at index i reads *)
ReadsAt(data, i) ==
    ChainReads(data, i, << 0, 0, 0, 1 >>, 0)
        \cup (IF StartCode4(data, i)
              THEN (IF i + 4 < Len(data) THEN {i + 4} ELSE {})
              ELSE ChainReads(data, i, << 0, 0, 1 >>, 0)
                       \cup (IF StartCode3(data, i) /\ i + 3 < Len(data)
                             THEN {i + 3} ELSE {}))

(* the values the loop variable i takes at the tests of the while condition, in order,
   up to the test that fails or the turn that returns *)
RECURSIVE ScanPath(_, _)
ScanPath(data, i) ==
    IF ~(i + 4 < Len(data)) THEN << i >>
    ELSE IF StartCode4(data, i)
         THEN IF i + 4 < Len(data) /\ (At(data, i + 4) % 32) \in {5, 7}
              THEN << i >>
              ELSE << i >> \o ScanPath(data, i + 4)
    ELSE IF StartCode3(data, i)
         THEN IF i + 3 < Len(data) /\ (At(data, i + 3) % 32) \in {5, 7}
              THEN << i >>
              ELSE << i >> \o ScanPath(data, i + 3)
    ELSE << i >> \o ScanPath(data, i + 1)

(* every index the scan of data reads *)
ScanReads(data) ==
    LET path == ScanPath(data, 0)
    IN  UNION { ReadsAt(data, path[k]) :
                  k \in { j \in 1..Len(path) : path[j] + 4 < Len(data) } }


-----------------------------------------------------------------------------
(* Helpers shared by the two supervisor drafts *)

RunLoop == "run_loop"

DecodeLoop == "gstreamer_decode_loop"

(* the decoder elements the two drafts name *)
Decoders == { "vah264dec", "vaapih264dec", "nvh264dec", "vtdec", "avdec_h264" }

(* run_loop's candidates, in the order of the array *)
hw_decoders == << "vah264dec", "vaapih264dec", "nvh264dec", "vtdec" >>

NoDecoder == "none"

(* iter().find_map(..): the first candidate that ElementFactory::make can build *)
RECURSIVE find_map(_, _)
find_map(names, avail) ==
    IF names = << >> THEN NoDecoder
    ELSE IF Head(names) \in avail THEN Head(names)
    ELSE find_map(Tail(names), avail)

(* the decoder a build uses: run_loop tries hw_decoders, then avdec_h264;
   gstreamer_decode_loop tries avdec_h264, then vtdec; NoDecoder is the failed expect *)
select_decoder(v, avail) ==
    IF v = RunLoop
    THEN IF find_map(hw_decoders, avail) # NoDecoder THEN find_map(hw_decoders, avail)
         ELSE IF "avdec_h264" \in avail THEN "avdec_h264"
         ELSE NoDecoder
    ELSE IF "avdec_h264" \in avail THEN "avdec_h264"
         ELSE IF "vtdec" \in avail THEN "vtdec"
         ELSE NoDecoder

(* mutant of Received: the channel hands out the newest unit *)
ReceivedNewest(q) == q[Len(q)]

(* the unit recv_timeout returns: the oldest one queued *)
Received(q) == Head(q)

(* what stays queued after recv_timeout returned a unit *)
Remaining(q) == Tail(q)

(* mutant of MonitorReports: the Eos arm is skipped like a warning *)
MonitorReportsErrorOnly(msg) == msg = "error"

(* the bus match: Error and Eos set got_error and break, every other message is skipped *)
MonitorReports(msg) == msg \in {"error", "eos"}

(* mutant of clean_shutdown: the test is inverted, `if got_error { break; }` *)
clean_shutdown_inverted(ge) == ge

(* `if !got_error { break; }` after the drain *)
clean_shutdown(ge) == ~ge

(* appsrc.push_buffer: a pipeline that is not Playing (set to Null by the teardown or
   by VideoPlayerApp::drop) is flushing and rejects the buffer; a Playing one accepts
   it or, a bounded number of times, rejects it *)
PushOutcomes ==
    IF builds \in playing
    THEN {TRUE} \cup (IF Cardinality(push_failed) < MaxPushFail THEN {FALSE} ELSE {})
    ELSE {FALSE}

(* one push_buffer call as the backend sees it *)
PushRecord(unit, ok) ==
    [id |-> unit.id, data |-> unit.data, at |-> unit.at, pts |-> pts_ns,
     duration |-> frame_duration_ns, cycle |-> builds, ok |-> ok]

advance_pts_stalled(p) == p

(* pts_ns += frame_duration_ns *)
advance_pts(p) == p + frame_duration_ns

(* ghost: the number of pipelines that have been set to Playing so far *)
Started == IF pc = "start" THEN builds - 1 ELSE builds

InPlaying == pc \in {"check", "recv", "watch"}

(* somebody is still popping the bus of the current pipeline *)
MonitorWatching == bus_thread = "watching" \/ pc = "watch"

-----------------------------------------------------------------------------
(* Ingest thread and backend: the environment of the supervisor *)

(* the runtime's plugin registry changes between two builds *)
Plugins(avail) ==
    /\ pc = "backoff"
    /\ avail # available
    /\ available' = avail
    /\ UNCHANGED << variant, pc, h264_rx, tx_alive, sent, pipeline_holder, playing,
                    builds, bus, got_error, bus_thread, pump, waiting_for_keyframe,
                    pts_ns, pushed, app_dropped, cancelled, backoffs, reported,
                    last_report, posted, push_failed, decoder_name, count, decVars,
                    sinkVars >>

(* h264_tx.send(data): one more unit on the channel *)
Ingest(data) ==
    /\ tx_alive
    /\ Len(sent) < MaxUnits
    /\ sent' = Append(sent, data)
    /\ h264_rx' = IF pc \in {"stopped", "panicked"} THEN h264_rx
                  ELSE Append(h264_rx, [id |-> Len(sent) + 1, data |-> data,
                                        at |-> Started])
    /\ UNCHANGED << variant, pc, tx_alive, pipeline_holder, playing, builds, bus,
                    got_error, bus_thread, pump, waiting_for_keyframe, pts_ns, pushed,
                    app_dropped, cancelled, backoffs, reported, last_report, posted,
                    push_failed, decVars, sinkVars, selVars, count >>

(* the subscriber loop ends and h264_tx is dropped *)
Disconnect ==
    /\ tx_alive
    /\ tx_alive' = FALSE
    /\ UNCHANGED << variant, pc, h264_rx, sent, pipeline_holder, playing, builds, bus,
                    got_error, bus_thread, pump, waiting_for_keyframe, pts_ns, pushed,
                    app_dropped, cancelled, backoffs, reported, last_report, posted,
                    push_failed, decVars, sinkVars, selVars, count >>

(* the running pipeline posts an Error or an Eos message on its bus (the monitor leaves
   its loop at the first such message: one posted behind it, or after the monitor has
   left, is never popped and is left out) *)
PostFatal(kind) ==
    /\ builds \in playing
    /\ MonitorWatching
    /\ \A i \in 1..Len(bus) : bus[i] = "warning"
    /\ posted < MaxErrors
    /\ bus' = Append(bus, kind)
    /\ posted' = posted + 1
    /\ UNCHANGED << variant, pc, h264_rx, tx_alive, sent, pipeline_holder, playing,
                    builds, got_error, bus_thread, pump, waiting_for_keyframe, pts_ns,
                    pushed, app_dropped, cancelled, backoffs, reported, last_report,
                    push_failed, decVars, sinkVars, selVars, count >>

(* the running pipeline posts a Warning message on its bus; the monitor skips every
   such message alike, so one of them is kept on the bus at a time *)
PostWarning ==
    /\ builds \in playing
    /\ MonitorWatching
    /\ bus = << >>
    /\ bus' = Append(bus, "warning")
    /\ UNCHANGED << variant, pc, h264_rx, tx_alive, sent, pipeline_holder, playing,
                    builds, got_error, bus_thread, pump, waiting_for_keyframe, pts_ns,
                    pushed, app_dropped, cancelled, backoffs, reported, last_report,
                    posted, push_failed, decVars, sinkVars, selVars, count >>

(* VideoPlayerApp::drop: take the handle and set that pipeline to Null *)
AppDrop ==
    /\ ~app_dropped
    /\ app_dropped' = TRUE
    /\ pipeline_holder' = NoPipeline
    /\ playing' = playing \ {pipeline_holder}
    /\ cancelled' = (pipeline_holder = builds /\ builds \in playing /\ InPlaying)
    /\ UNCHANGED << variant, pc, h264_rx, tx_alive, sent, builds, bus, got_error,
                    bus_thread, pump, waiting_for_keyframe, pts_ns, pushed, backoffs,
                    reported, last_report, posted, push_failed, decVars, sinkVars, selVars, count >>

-----------------------------------------------------------------------------
(* The supervisor thread: one iteration of the outer loop of run_loop and of
   gstreamer_decode_loop *)

BuildUnpublished ==
    /\ pc = "build"
    /\ IF select_decoder(variant, available) = NoDecoder
       THEN /\ pc' = "panicked"
            /\ UNCHANGED << builds, pipeline_holder, bus, decoder_name >>
       ELSE /\ builds' = builds + 1
            /\ UNCHANGED pipeline_holder
            /\ bus' = << >>
            /\ decoder_name' = select_decoder(variant, available)
            /\ pc' = "start"
    /\ UNCHANGED << variant, h264_rx, tx_alive, sent, playing, got_error, bus_thread,
                    pump, waiting_for_keyframe, pts_ns, pushed, app_dropped, cancelled,
                    backoffs, reported, last_report, posted, push_failed, available,
                    count, decVars, sinkVars >>

(* construct and link the pipeline and store it in pipeline_holder; `.expect(..)` on
   the last decoder candidate panics, and the panic ends the supervisor thread *)
Build ==
    /\ pc = "build"
    /\ IF select_decoder(variant, available) = NoDecoder
       THEN /\ pc' = "panicked"
            /\ UNCHANGED << builds, pipeline_holder, bus, decoder_name >>
       ELSE /\ builds' = builds + 1
            /\ pipeline_holder' = builds + 1
            /\ bus' = << >>
            /\ decoder_name' = select_decoder(variant, available)
            /\ pc' = "start"
    /\ UNCHANGED << variant, h264_rx, tx_alive, sent, playing, got_error, bus_thread,
                    pump, waiting_for_keyframe, pts_ns, pushed, app_dropped, cancelled,
                    backoffs, reported, last_report, posted, push_failed, available,
                    count, decVars, sinkVars >>

(* set_state(Playing), then spawn the cycle's sub-thread: the bus monitor in run_loop,
   the pump (with its gate closed) in gstreamer_decode_loop *)
Start ==
    /\ pc = "start"
    /\ playing' = playing \cup {builds}
    /\ got_error' = FALSE
    /\ last_report' = "none"
    /\ pts_ns' = 0
    /\ IF variant = RunLoop
       THEN /\ bus_thread' = "watching"
            /\ pc' = "check"
            /\ UNCHANGED << pump, waiting_for_keyframe >>
       ELSE /\ pump' = "running"
            /\ waiting_for_keyframe' = TRUE
            /\ pc' = "watch"
            /\ UNCHANGED bus_thread
    /\ UNCHANGED << variant, h264_rx, tx_alive, sent, pipeline_holder, builds, bus,
                    pushed, app_dropped, cancelled, backoffs, reported, posted,
                    push_failed, decVars, sinkVars, selVars, count >>

(* run_loop, top of the pump loop: `if got_error { break; }` *)
Check ==
    /\ variant = RunLoop
    /\ pc = "check"
    /\ pc' = IF got_error THEN "teardown" ELSE "recv"
    /\ UNCHANGED << variant, h264_rx, tx_alive, sent, pipeline_holder, playing, builds,
                    bus, got_error, bus_thread, pump, waiting_for_keyframe, pts_ns,
                    pushed, app_dropped, cancelled, backoffs, reported, last_report,
                    posted, push_failed, decVars, sinkVars, selVars, count >>

(* run_loop, rest of the pump loop: recv_timeout(100 ms), stamp the buffer, push it *)
Recv ==
    /\ variant = RunLoop
    /\ pc = "recv"
    /\ IF h264_rx # << >>
       THEN \E ok \in PushOutcomes :
                /\ h264_rx' = Remaining(h264_rx)
                /\ pushed' = Append(pushed, PushRecord(Received(h264_rx), ok))
                /\ pts_ns' = advance_pts(pts_ns)
                /\ push_failed' = IF ok THEN push_failed ELSE push_failed \cup {builds}
                /\ pc' = IF ok THEN "check" ELSE "teardown"
       ELSE /\ pc' = IF tx_alive THEN "check" ELSE "teardown"
            /\ UNCHANGED << h264_rx, pushed, pts_ns, push_failed >>
    /\ UNCHANGED << variant, tx_alive, sent, pipeline_holder, playing, builds, bus,
                    got_error, bus_thread, pump, waiting_for_keyframe, app_dropped,
                    cancelled, backoffs, reported, last_report, posted, decVars, sinkVars, selVars, count >>

(* run_loop's bus monitor thread: pop the next message of bus.iter_timed(NONE) *)
BusThread ==
    /\ variant = RunLoop
    /\ bus_thread = "watching"
    /\ bus # << >>
    /\ bus' = Tail(bus)
    /\ last_report' = IF Head(bus) \in {"error", "eos"} THEN Head(bus) ELSE last_report
    /\ IF MonitorReports(Head(bus))
       THEN /\ got_error' = TRUE
            /\ bus_thread' = "done"
            /\ reported' = reported + 1
       ELSE UNCHANGED << got_error, bus_thread, reported >>
    /\ UNCHANGED << variant, pc, h264_rx, tx_alive, sent, pipeline_holder, playing,
                    builds, pump, waiting_for_keyframe, pts_ns, pushed, app_dropped,
                    cancelled, backoffs, posted, push_failed, decVars, sinkVars, selVars, count >>

(* gstreamer_decode_loop: the supervisor itself pops the next message of
   bus.iter_timed(NONE) *)
Watch ==
    /\ variant = DecodeLoop
    /\ pc = "watch"
    /\ bus # << >>
    /\ bus' = Tail(bus)
    /\ last_report' = IF Head(bus) \in {"error", "eos"} THEN Head(bus) ELSE last_report
    /\ IF MonitorReports(Head(bus))
       THEN /\ got_error' = TRUE
            /\ pc' = "teardown"
            /\ reported' = reported + 1
       ELSE UNCHANGED << got_error, pc, reported >>
    /\ UNCHANGED << variant, h264_rx, tx_alive, sent, pipeline_holder, playing, builds,
                    bus_thread, pump, waiting_for_keyframe, pts_ns, pushed, app_dropped,
                    cancelled, backoffs, posted, push_failed, decVars, sinkVars, selVars, count >>

(* gstreamer_decode_loop's pump thread: one iteration of its loop that receives a unit
   or finds the channel disconnected (a timeout changes nothing) *)
PumpThread ==
    /\ variant = DecodeLoop
    /\ pump = "running"
    /\ IF h264_rx # << >>
       THEN /\ h264_rx' = Remaining(h264_rx)
            /\ IF waiting_for_keyframe /\ ~h264_contains_keyframe(Received(h264_rx).data)
               THEN UNCHANGED << waiting_for_keyframe, pushed, pts_ns, push_failed, pump >>
               ELSE \E ok \in PushOutcomes :
                        /\ waiting_for_keyframe' = FALSE
                        /\ pushed' = Append(pushed, PushRecord(Received(h264_rx), ok))
                        /\ pts_ns' = advance_pts(pts_ns)
                        /\ push_failed' = IF ok THEN push_failed
                                          ELSE push_failed \cup {builds}
                        /\ pump' = IF ok THEN "running" ELSE "done"
       ELSE /\ ~tx_alive
            /\ pump' = "done"
            /\ UNCHANGED << h264_rx, waiting_for_keyframe, pushed, pts_ns, push_failed >>
    /\ UNCHANGED << variant, pc, tx_alive, sent, pipeline_holder, playing, builds, bus,
                    got_error, bus_thread, app_dropped, cancelled, backoffs, reported,
                    last_report, posted, decVars, sinkVars, selVars, count >>

(* tear down: set_state(Null) and appsrc.end_of_stream(), both results ignored *)
Teardown ==
    /\ pc = "teardown"
    /\ playing' = playing \ {builds}
    /\ pc' = "join"
    /\ UNCHANGED << variant, h264_rx, tx_alive, sent, pipeline_holder, builds, bus,
                    got_error, bus_thread, pump, waiting_for_keyframe, pts_ns, pushed,
                    app_dropped, cancelled, backoffs, reported, last_report, posted,
                    push_failed, decVars, sinkVars, selVars, count >>

JoinDetached ==
    /\ pc = "join"
    /\ pc' = "drain"
    /\ UNCHANGED << variant, h264_rx, tx_alive, sent, pipeline_holder, playing, builds,
                    bus, got_error, bus_thread, pump, waiting_for_keyframe, pts_ns,
                    pushed, app_dropped, cancelled, backoffs, reported, last_report,
                    posted, push_failed, decVars, sinkVars, selVars, count >>

(* bus_thread.join() in run_loop, pump.join() in gstreamer_decode_loop *)
Join ==
    /\ pc = "join"
    /\ IF variant = RunLoop
       THEN /\ bus_thread = "done"
            /\ bus_thread' = "idle"
            /\ UNCHANGED pump
       ELSE /\ pump = "done"
            /\ pump' = "idle"
            /\ UNCHANGED bus_thread
    /\ pc' = "drain"
    /\ UNCHANGED << variant, h264_rx, tx_alive, sent, pipeline_holder, playing, builds,
                    bus, got_error, waiting_for_keyframe, pts_ns, pushed, app_dropped,
                    cancelled, backoffs, reported, last_report, posted, push_failed,
                    decVars, sinkVars, selVars, count >>

(* `while h264_rx.try_recv().is_ok() {}` *)
Drain ==
    /\ pc = "drain"
    /\ h264_rx' = << >>
    /\ pc' = "decide"
    /\ UNCHANGED << variant, tx_alive, sent, pipeline_holder, playing, builds, bus,
                    got_error, bus_thread, pump, waiting_for_keyframe, pts_ns, pushed,
                    app_dropped, cancelled, backoffs, reported, last_report, posted,
                    push_failed, decVars, sinkVars, selVars, count >>

(* `if !got_error { break; }`: leave the outer loop or go on to the sleep *)
Decide ==
    /\ pc = "decide"
    /\ pc' = IF clean_shutdown(got_error) THEN "stopped" ELSE "backoff"
    /\ UNCHANGED << variant, h264_rx, tx_alive, sent, pipeline_holder, playing, builds,
                    bus, got_error, bus_thread, pump, waiting_for_keyframe, pts_ns,
                    pushed, app_dropped, cancelled, backoffs, reported, last_report,
                    posted, push_failed, decVars, sinkVars, selVars, count >>

(* std::thread::sleep(500 ms), then the next iteration of the outer loop *)
Backoff ==
    /\ pc = "backoff"
    /\ backoffs' = backoffs + 1
    /\ pc' = "build"
    /\ UNCHANGED << variant, h264_rx, tx_alive, sent, pipeline_holder, playing, builds,
                    bus, got_error, bus_thread, pump, waiting_for_keyframe, pts_ns,
                    pushed, app_dropped, cancelled, reported, last_report, posted,
                    push_failed, decVars, sinkVars, selVars, count >>

-----------------------------------------------------------------------------
(* The specification of the supervisor with its environment *)

DecodeIdle == [kind |-> "idle"]

(* main: the frame channel is empty, VideoPlayerApp::new has no texture *)
SinkAtRest ==
    /\ rgba_rx = << >>
    /\ frames_made = 0
    /\ upd = "idle"
    /\ latest_frame = NoFrame
    /\ texture = NoFrame
    /\ frame_count = 0

(* main: the channels and the empty holder exist, the supervisor thread is about to
   build its first pipeline *)
SupervisorIdle ==
    /\ pc = "build"
    /\ h264_rx = << >>
    /\ tx_alive = TRUE
    /\ sent = << >>
    /\ pipeline_holder = NoPipeline
    /\ playing = {}
    /\ builds = 0
    /\ bus = << >>
    /\ got_error = FALSE
    /\ bus_thread = "idle"
    /\ pump = "idle"
    /\ waiting_for_keyframe = TRUE
    /\ pts_ns = 0
    /\ pushed = << >>
    /\ app_dropped = FALSE
    /\ cancelled = FALSE
    /\ backoffs = 0
    /\ reported = 0
    /\ last_report = "none"
    /\ posted = 0
    /\ push_failed = {}
    /\ decoder_name = NoDecoder
    /\ count = 0

(* the same, on a host where every decoder element can be instantiated *)
SupervisorAtRest == SupervisorIdle /\ available = Decoders

Init ==
    /\ variant \in {RunLoop, DecodeLoop}
    /\ SupervisorAtRest
    /\ SinkAtRest
    /\ buf = << >>
    /\ wire = DecodeIdle
    /\ result = DecodeIdle

Supervisor ==
    \/ Build
    \/ Start
    \/ Check
    \/ Recv
    \/ Watch
    \/ Teardown
    \/ Join
    \/ Drain
    \/ Decide
    \/ Backoff

(* the transport and the backend *)
Scripted ==
    \/ \E data \in UnitPool : Ingest(data)
    \/ Disconnect
    \/ \E kind \in {"error", "eos"} : PostFatal(kind)
    \/ PostWarning

Environment == Scripted \/ AppDrop

Next == Supervisor \/ BusThread \/ PumpThread \/ Environment

Spec == Init /\ [][Next]_vars

(* the three threads of the program are scheduled; the transport and the backend owe
   nothing *)
FairSpec ==
    /\ Spec
    /\ WF_vars(Supervisor)
    /\ WF_vars(BusThread)
    /\ WF_vars(PumpThread)

(* the scripted run of a test: the transport and the backend act, the consumer keeps
   the application open *)
ScriptedNext == Supervisor \/ BusThread \/ PumpThread \/ Scripted

ScriptedSpec ==
    /\ Init
    /\ [][ScriptedNext]_vars
    /\ WF_vars(Supervisor)
    /\ WF_vars(BusThread)
    /\ WF_vars(PumpThread)

-----------------------------------------------------------------------------
(* decode_cdr_compressed_video of main.rs: the CDR wire decoder *)

(* width of usize on the targets the player is built for *)
UsizeBits == 64

(* a u32 is kept as its two 16-bit halves, value hi * 2^16 + lo: TLC's integers have
   32 bits, and every buffer drawn here is shorter than 2^16 bytes *)
Half == 256 * 256

U32(hi, lo) == [hi |-> hi, lo |-> lo]

(* length of the CDR encapsulation header, the start value of pos *)
HeaderLen == 4

DecodeNone == [kind |-> "None"]

DecodePanic == [kind |-> "Panic"]

(* mutant of AlignUp: the position is not rounded up *)
AlignUpNot(pos) == pos

(* align to 4 bytes: `(pos + 3) & !3` *)
AlignUp(pos) == ((pos + 3) \div 4) * 4

(* mutant of U32At: the byte-order flag is not looked at, every read is little-endian *)
U32AtLittleOnly(b, pos, le) ==
    U32(At(b, pos + 2) + 256 * At(b, pos + 3), At(b, pos) + 256 * At(b, pos + 1))

(* u32::from_le_bytes / u32::from_be_bytes of buf[pos..pos + 4] *)
U32At(b, pos, le) ==
    IF le
    THEN U32(At(b, pos + 2) + 256 * At(b, pos + 3), At(b, pos) + 256 * At(b, pos + 1))
    ELSE U32(At(b, pos + 1) + 256 * At(b, pos), At(b, pos + 3) + 256 * At(b, pos + 2))

(* the closure read_u32: None when fewer than 4 bytes follow the aligned position *)
read_u32(pos, b, le) ==
    LET p == AlignUp(pos)
    IN  IF p + 4 > Len(b)
        THEN [ok |-> FALSE, val |-> U32(0, 0), pos |-> p]
        ELSE [ok |-> TRUE, val |-> U32At(b, p, le), pos |-> p + 4]

(* mutant of Overruns: the comparison is off by one *)
OverrunsOffByOne(pos, n, b) == n.hi > 0 \/ pos + n.lo > Len(b) + 1

(* the guard `pos + len > buf.len()` before a field is taken, len = n as usize *)
Overruns(pos, n, b) == n.hi > 0 \/ pos + n.lo > Len(b)

(* the sum pos + len leaves usize: never with 64 bits, past 2^32 - 1 with 32 *)
AddOverflows(pos, n) ==
    IF UsizeBits >= 64 THEN FALSE ELSE n.hi = Half - 1 /\ pos + n.lo >= Half

(* `format_len == 0` *)
IsZero(n) == n.hi = 0 /\ n.lo = 0

(* the range expression buf[from..to]: it panics when the range is not inside buf *)
SliceOk(b, from, to) == from <= to /\ to <= Len(b)

Slice(b, from, to) == [i \in 1..(to - from) |-> b[from + i]]

(* String::from_utf8_lossy, as a sequence of code points: an ASCII byte is kept, a
   lead byte C2..DF with its continuation byte 80..BF is one code point, and any other
   byte, such as 0xFF or a lead byte without its continuation, becomes U+FFFD (lead
   bytes of 3- and 4-byte sequences are in none of the buffers drawn) *)
RECURSIVE LossyFrom(_, _)
LossyFrom(bytes, i) ==
    IF i > Len(bytes) THEN << >>
    ELSE IF bytes[i] < 128 THEN << bytes[i] >> \o LossyFrom(bytes, i + 1)
    ELSE IF bytes[i] \in 194..223 /\ i < Len(bytes) /\ bytes[i + 1] \in 128..191
         THEN << (bytes[i] - 192) * 64 + (bytes[i + 1] - 128) >>
                  \o LossyFrom(bytes, i + 2)
    ELSE << 65533 >> \o LossyFrom(bytes, i + 1)

from_utf8_lossy(bytes) == LossyFrom(bytes, 1)

(* the format field: length read, zero and overrun guard, slice without the terminator *)
DecodeFormat(b, le, pos, data, fid_end) ==
    LET r == read_u32(pos, b, le)
    IN  IF ~r.ok THEN DecodeNone
        ELSE IF AddOverflows(r.pos, r.val) THEN DecodePanic
        ELSE IF IsZero(r.val) \/ Overruns(r.pos, r.val, b) THEN DecodeNone
        ELSE IF ~SliceOk(b, r.pos, r.pos + r.val.lo - 1) THEN DecodePanic
        ELSE [kind |-> "Some",
              data |-> data,
              format |-> from_utf8_lossy(Slice(b, r.pos, r.pos + r.val.lo - 1)),
              fid_end |-> fid_end,
              data_end |-> pos,
              fmt_end |-> r.pos + r.val.lo]

(* the data field: length read, overrun guard, copy of the bytes *)
DecodeData(b, le, pos) ==
    LET r == read_u32(pos, b, le)
    IN  IF ~r.ok THEN DecodeNone
        ELSE IF AddOverflows(r.pos, r.val) THEN DecodePanic
        ELSE IF Overruns(r.pos, r.val, b) THEN DecodeNone
        ELSE IF ~SliceOk(b, r.pos, r.pos + r.val.lo) THEN DecodePanic
        ELSE DecodeFormat(b, le, r.pos + r.val.lo,
                          Slice(b, r.pos, r.pos + r.val.lo), pos)

(* the frame_id field: length read, overrun guard, the bytes are skipped *)
DecodeFrameId(b, le, pos) ==
    LET r == read_u32(pos, b, le)
    IN  IF ~r.ok THEN DecodeNone
        ELSE IF AddOverflows(r.pos, r.val) THEN DecodePanic
        ELSE IF Overruns(r.pos, r.val, b) THEN DecodeNone
        ELSE DecodeData(b, le, r.pos + r.val.lo)

(* mutant of little_endian: every non-zero flag byte selects little-endian *)
little_endian_nonzero(b) == At(b, 1) # 0

(* `let le = buf[1] == 0x01;` *)
little_endian(b) == At(b, 1) = 1

decode_cdr_compressed_video(b) ==
    IF Len(b) < 4 THEN DecodeNone
    ELSE LET le == little_endian(b)
             sec == read_u32(HeaderLen, b, le)
             nsec == read_u32(sec.pos, b, le)
         IN  IF ~sec.ok THEN DecodeNone
             ELSE IF ~nsec.ok THEN DecodeNone
             ELSE DecodeFrameId(b, le, nsec.pos)

-----------------------------------------------------------------------------
(* Buffers for the decoder: built by the rules of the wire format from a frame_id, a
   data and a format field, each with the length it declares, and cut to a prefix *)

EncodeU32(v, le) ==
    LET b0 == v.lo % 256
        b1 == v.lo \div 256
        b2 == v.hi % 256
        b3 == v.hi \div 256
    IN  IF le THEN << b0, b1, b2, b3 >> ELSE << b3, b2, b1, b0 >>

(* zero bytes up to the next multiple of 4 *)
PadTo4(b) == b \o [i \in 1..(AlignUp(Len(b)) - Len(b)) |-> 0]

WireHeader(le) == << 0, IF le THEN 1 ELSE 0, 0, 0 >>

WireFull(w) ==
    LET head == WireHeader(w.le) \o EncodeU32(U32(0, 7), w.le)
                    \o EncodeU32(U32(0, 9), w.le)
        withFid == PadTo4(head \o EncodeU32(w.fid_decl, w.le) \o w.fid)
        withData == PadTo4(withFid \o EncodeU32(w.data_decl, w.le) \o w.data)
    IN  withData \o EncodeU32(w.fmt_decl, w.le) \o w.fmt

WireBuf(w) == SubSeq(WireFull(w), 1, w.cut)

FrameIds == { << >>, << 0 >>, << 97, 98, 99, 0 >> }

Datas == { << >>, << 1, 2, 3 >>, << 1, 2, 3, 4 >> }

(* the UTF-8 bytes of a text of code points below U+0800 *)
RECURSIVE to_utf8(_)
to_utf8(text) ==
    IF text = << >> THEN << >>
    ELSE (IF Head(text) < 128 THEN << Head(text) >>
          ELSE << 192 + (Head(text) \div 64), 128 + (Head(text) % 64) >>)
             \o to_utf8(Tail(text))

(* format texts: the empty one, "h26", and one with a two-byte character *)
FormatTexts == { << >>, << 104, 50, 54 >>, << 233 >> }

(* format fields: no byte at all, each text with its terminator, and one that is not
   UTF-8 *)
Formats ==
    { << >>, << 104, 255, 0 >> } \cup { to_utf8(t) \o << 0 >> : t \in FormatTexts }

(* the lengths a field can declare: its own, none, one too many, the largest u32 *)
Declared(field) ==
    { U32(0, Len(field)), U32(0, 0), U32(0, Len(field) + 1), U32(Half - 1, Half - 1) }

Wire(le, fid, fid_decl, data, data_decl, fmt, fmt_decl, cut) ==
    [le |-> le, fid |-> fid, fid_decl |-> fid_decl, data |-> data,
     data_decl |-> data_decl, fmt |-> fmt, fmt_decl |-> fmt_decl, cut |-> cut]

-----------------------------------------------------------------------------
(* The specification of the decoder: a buffer is drawn, decode is applied to it *)

DecodePending == [kind |-> "pending"]

DecodeInit ==
    /\ variant = DecodeLoop
    /\ SupervisorAtRest
    /\ SinkAtRest
    /\ \E le \in BOOLEAN, fid \in FrameIds, data \in Datas, fmt \in Formats :
         \E fid_decl \in Declared(fid), data_decl \in Declared(data),
            fmt_decl \in Declared(fmt) :
           \E cut \in 0..Len(WireFull(Wire(le, fid, fid_decl, data, data_decl,
                                           fmt, fmt_decl, 0))) :
              wire = Wire(le, fid, fid_decl, data, data_decl, fmt, fmt_decl, cut)
    /\ buf = WireBuf(wire)
    /\ result = DecodePending

(* the call `decode_cdr_compressed_video(&payload)` of the subscriber loop *)
DecodeCall ==
    /\ result = DecodePending
    /\ result' = decode_cdr_compressed_video(buf)
    /\ UNCHANGED << supVars, buf, wire, sinkVars >>

DecodeNext == DecodeCall

DecodeSpec == DecodeInit /\ [][DecodeNext]_vars

-----------------------------------------------------------------------------
(* The specification of the decoder on the example buffer of the documentation: header
   00 01 00 00, sec, nsec, frame_id length 5 and 'a' 'b' 'c' 0, padding, data length 3
   and 01 02 03, format length 4 and 'h' '2' '6' 0. The example leaves sec, nsec and
   the padding open: e.pad bytes follow the frame_id, e.gap bytes follow the data *)

Fill(n, byte) == [i \in 1..n |-> byte]

ExampleBuf(e) ==
    WireHeader(TRUE) \o EncodeU32(e.sec, TRUE) \o EncodeU32(e.nsec, TRUE)
        \o << 5, 0, 0, 0, 97, 98, 99, 0 >> \o Fill(e.pad, e.fill)
        \o << 3, 0, 0, 0, 1, 2, 3 >> \o Fill(e.gap, e.fill)
        \o << 4, 0, 0, 0, 104, 50, 54, 0 >>

ExampleTimes == { U32(0, 0), U32(0, 7), U32(Half - 1, Half - 1) }

ExampleInit ==
    /\ variant = DecodeLoop
    /\ SupervisorAtRest
    /\ SinkAtRest
    /\ \E sec \in ExampleTimes, nsec \in ExampleTimes, pad \in 0..MaxPad,
          gap \in 0..MaxGap, fill \in {0, 255} :
           wire = [sec |-> sec, nsec |-> nsec, pad |-> pad, gap |-> gap, fill |-> fill]
    /\ buf = ExampleBuf(wire)
    /\ result = DecodePending

ExampleSpec == ExampleInit /\ [][DecodeNext]_vars

-----------------------------------------------------------------------------
(* The specification of the keyframe scanner: a unit is drawn, the scanner is applied
   to it as the pump thread does with every unit while its gate is closed *)

(* bytes of a unit: start code bytes, a non-keyframe type (0x41), the keyframe types
   IDR (0x65) and SPS (0x67) *)
ScanBytes == { 0, 1, 65, 101, 103 }

ScanUnits == UNION { [1..n -> ScanBytes] : n \in 0..MaxScanLen }

ScanInit ==
    /\ variant = DecodeLoop
    /\ SupervisorAtRest
    /\ SinkAtRest
    /\ buf \in ScanUnits
    /\ wire = DecodeIdle
    /\ result = DecodePending

(* the call `h264_contains_keyframe(&data)` *)
ScanCall ==
    /\ result = DecodePending
    /\ result' = [kind |-> "scanned", keyframe |-> h264_contains_keyframe(buf)]
    /\ UNCHANGED << supVars, buf, wire, sinkVars >>

ScanNext == ScanCall

ScanSpec == ScanInit /\ [][ScanNext]_vars

-----------------------------------------------------------------------------
(* The frame sink: the appsink callback of the pipeline produces decoded frames into
   the bounded channel, VideoPlayerApp::update consumes them *)

(* mutant of try_send: the channel is unbounded, as mpsc::channel() would make it *)
try_send_unbounded(q, frame) == Append(q, frame)

try_send_evicting(q, frame) ==
    IF Len(q) < rgba_capacity THEN Append(q, frame) ELSE Append(Tail(q), frame)

(* SyncSender::try_send: the frame is queued when the channel has room; when it is full
   the call returns Err(Full) at once and the frame is dropped with the error *)
try_send(q, frame) == IF Len(q) < rgba_capacity THEN Append(q, frame) ELSE q

(* the new_sample callback: copy the decoded frame, try_send it, return Ok *)
new_sample ==
    /\ frames_made < MaxFrames
    /\ frames_made' = frames_made + 1
    /\ rgba_rx' = try_send(rgba_rx, frames_made + 1)
    /\ UNCHANGED << supVars, decVars, upd, latest_frame, texture, frame_count >>

(* update: `let mut latest_frame = None;` *)
UpdateStart ==
    /\ upd = "idle"
    /\ latest_frame' = NoFrame
    /\ upd' = "drain"
    /\ UNCHANGED << supVars, decVars, rgba_rx, frames_made, texture, frame_count >>

UpdateTryRecvFirst ==
    /\ upd = "drain"
    /\ IF rgba_rx # << >>
       THEN /\ latest_frame' = IF latest_frame = NoFrame THEN Head(rgba_rx)
                                                        ELSE latest_frame
            /\ rgba_rx' = Tail(rgba_rx)
            /\ frame_count' = frame_count + 1
            /\ UNCHANGED upd
       ELSE /\ upd' = "show"
            /\ UNCHANGED << latest_frame, rgba_rx, frame_count >>
    /\ UNCHANGED << supVars, decVars, frames_made, texture >>

(* update: one turn of `while let Ok(frame) = self.rgba_rx.try_recv()` *)
UpdateTryRecv ==
    /\ upd = "drain"
    /\ IF rgba_rx # << >>
       THEN /\ latest_frame' = Head(rgba_rx)
            /\ rgba_rx' = Tail(rgba_rx)
            /\ frame_count' = frame_count + 1
            /\ UNCHANGED upd
       ELSE /\ upd' = "show"
            /\ UNCHANGED << latest_frame, rgba_rx, frame_count >>
    /\ UNCHANGED << supVars, decVars, frames_made, texture >>

(* update: `if let Some(..) = latest_frame`, the texture is set to the frame kept *)
UpdateShow ==
    /\ upd = "show"
    /\ texture' = IF latest_frame # NoFrame THEN latest_frame ELSE texture
    /\ upd' = "idle"
    /\ UNCHANGED << supVars, decVars, rgba_rx, frames_made, latest_frame, frame_count >>

SinkInit ==
    /\ variant \in {RunLoop, DecodeLoop}
    /\ SupervisorAtRest
    /\ SinkAtRest
    /\ buf = << >>
    /\ wire = DecodeIdle
    /\ result = DecodeIdle

SinkNext == new_sample \/ UpdateStart \/ UpdateTryRecv \/ UpdateShow

SinkSpec == SinkInit /\ [][SinkNext]_vars

-----------------------------------------------------------------------------
(* The subscriber loop of the ingest thread: one message is received, decoded and
   forwarded *)

(* mutant of forwarded: a message the decoder refuses is dropped *)
forwarded_decoded_only(r, payload) ==
    IF r.kind = "Some" /\ r.data # << >> THEN << r.data >> ELSE << >>

forwarded_unchecked(r, payload) ==
    IF r.kind = "Some" THEN << r.data >> ELSE << payload >>

(* the units one message puts on the channel: the decoded data when it is not empty,
   the raw payload when the decoder returned None *)
forwarded(r, payload) ==
    IF r.kind = "Some"
    THEN IF r.data # << >> THEN << r.data >> ELSE << >>
    ELSE << payload >>

(* `let _ = h264_tx.send(unit)` for each unit: the result is ignored, the unit is lost
   when the receiver is gone *)
SendAll(units) ==
    /\ sent' = sent \o units
    /\ h264_rx' = IF pc \in {"stopped", "panicked"} THEN h264_rx
                  ELSE h264_rx \o [i \in 1..Len(units) |->
                                      [id |-> Len(sent) + i, data |-> units[i],
                                       at |-> Started]]

(* one turn of `while let Ok(sample) = subscriber.recv_async().await` *)
OnSample(payload) ==
    /\ tx_alive
    /\ count < MaxMsgs
    /\ count' = count + 1
    /\ buf' = payload
    /\ IF payload = << >>
       THEN /\ result' = DecodeIdle
            /\ UNCHANGED << sent, h264_rx, tx_alive >>
       ELSE /\ result' = decode_cdr_compressed_video(payload)
            /\ IF decode_cdr_compressed_video(payload) = DecodePanic
               THEN /\ tx_alive' = FALSE
                    /\ UNCHANGED << sent, h264_rx >>
               ELSE /\ SendAll(forwarded(decode_cdr_compressed_video(payload), payload))
                    /\ UNCHANGED tx_alive
    /\ UNCHANGED << variant, pc, pipeline_holder, playing, builds, bus, got_error,
                    bus_thread, pump, waiting_for_keyframe, pts_ns, pushed, app_dropped,
                    cancelled, backoffs, reported, last_report, posted, push_failed,
                    wire, sinkVars, selVars >>

(* a message of the topic with data 01 02 03 and format "h26" *)
GoodPayload ==
    WireFull(Wire(TRUE, << 97, 98, 99, 0 >>, U32(0, 4), << 1, 2, 3 >>, U32(0, 3),
                  << 104, 50, 54, 0 >>, U32(0, 4), 0))

(* the same with no data bytes *)
EmptyDataPayload ==
    WireFull(Wire(TRUE, << 97, 98, 99, 0 >>, U32(0, 4), << >>, U32(0, 0),
                  << 104, 50, 54, 0 >>, U32(0, 4), 0))

(* messages: none, a 2-byte one, a raw H.264 unit, a message cut inside its data, a
   whole message, a whole message without data *)
Payloads ==
    { << >>, << 0, 1 >>, IdrUnit, SubSeq(GoodPayload, 1, 26), GoodPayload,
      EmptyDataPayload }

IngestNext ==
    \/ \E payload \in Payloads : OnSample(payload)
    \/ Disconnect
    \/ \E kind \in {"error", "eos"} : PostFatal(kind)
    \/ Supervisor
    \/ BusThread
    \/ PumpThread

IngestSpec == Init /\ [][IngestNext]_vars

-----------------------------------------------------------------------------
(* The specification of the backend selection *)

(* the supervisor on hosts with any set of decoder elements, which changes between
   builds; the ingest thread and the consumer's update run beside it *)
(* plugin registries of hosts: no decoder at all, the software decoder alone, one
   hardware decoder alone, hardware and software together, every decoder *)
Registries ==
    { {}, {"avdec_h264"}, {"vtdec"}, {"vah264dec"}, {"vtdec", "avdec_h264"},
      {"vaapih264dec", "nvh264dec", "avdec_h264"}, Decoders }

SelectInit ==
    /\ variant \in {RunLoop, DecodeLoop}
    /\ SupervisorIdle
    /\ available \in Registries
    /\ SinkAtRest
    /\ buf = << >>
    /\ wire = DecodeIdle
    /\ result = DecodeIdle

SelectNext ==
    \/ Supervisor
    \/ BusThread
    \/ PumpThread
    \/ \E avail \in Registries : Plugins(avail)
    \/ \E kind \in {"error", "eos"} : PostFatal(kind)
    \/ \E data \in UnitPool : Ingest(data)
    \/ Disconnect
    \/ UpdateStart
    \/ UpdateTryRecv
    \/ UpdateShow

SelectSpec ==
    /\ SelectInit
    /\ [][SelectNext]_vars
    /\ WF_vars(Supervisor)
    /\ WF_vars(BusThread)
    /\ WF_vars(PumpThread)

-----------------------------------------------------------------------------
(* Properties of the supervisor *)

(* every report of a monitor is matched by one backoff and one rebuild *)
RestartsMatchReports ==
    /\ builds = backoffs + (IF pc = "build" THEN 0 ELSE 1)
    /\ reported = backoffs + (IF got_error /\ pc # "build" /\ pc # "start" THEN 1 ELSE 0)
    /\ pc = "stopped" => reported = backoffs

(* C1: N errors reported by the bus monitor, one per cycle, make N restart cycles (N + 1
   builds), each rebuild comes after one 500 ms backoff, and after every report run_loop
   is again in Playing, pumping, with the error flag of the new cycle clear *)
C1_RestartPerError ==
    /\ []RestartsMatchReports
    /\ [](variant = RunLoop /\ got_error /\ InPlaying
            => <>(pc = "check" /\ ~got_error /\ builds = reported + 1))

(* C1 witness: run_loop pumps again after two reported errors, two backoffs and a
   third build *)
C1_Witness ==
    /\ variant = RunLoop
    /\ pc = "recv"
    /\ reported = 2
    /\ backoffs = 2
    /\ builds = 3
    /\ ~got_error

(* C2: a push failure with no report of the monitor in that cycle leads to the restart
   path (teardown, backoff, a new build), in both drafts: the cycle in which the push
   failed is eventually followed by a new build unless the monitor reports meanwhile *)
C2_PushFailureRestarts ==
    [](builds \in push_failed /\ last_report = "none"
         => <>(builds \notin push_failed \/ last_report # "none"))

(* C3: once the ingest channel is closed and empty, with no report of the monitor in
   the cycle, the supervisor eventually reaches Stopped (unless the monitor reports
   meanwhile) *)
C3_CleanStop ==
    [](~tx_alive /\ h264_rx = << >> /\ InPlaying /\ last_report = "none"
         => <>(pc = "stopped" \/ last_report # "none"))

(* C4: after the consumer has taken the handle and stopped the pipeline the supervisor
   was playing, the supervisor's next check leaves Playing, and it never enters Backoff
   or Building again *)
C4_Cancellation ==
    [][cancelled => ((pc = "check" /\ pc' # pc => pc' = "teardown")
                       /\ (pc' # pc => pc' \notin {"backoff", "build"}))]_vars

(* C5: after the Draining step of a cycle, and throughout Backoff, the shared holder
   contains None *)
C5_HolderClearedByTeardown ==
    pc \in {"decide", "backoff", "stopped"} => pipeline_holder = NoPipeline

(* C6: in every cycle of either draft no unit is pushed before the first unit of that
   cycle that contains a keyframe: the first push_buffer call of every cycle carries
   a unit for which h264_contains_keyframe is true *)
C6_KeyframeGate ==
    \A i \in 1..Len(pushed) :
        (\A j \in 1..(i - 1) : pushed[j].cycle # pushed[i].cycle)
            => h264_contains_keyframe(pushed[i].data)

(* C7: the units pushed to the backend, over all cycles, are units the ingest thread
   enqueued, in the order it enqueued them, none of them twice *)
C7_PushOrder ==
    /\ \A i \in 1..Len(pushed) :
           /\ pushed[i].id \in 1..Len(sent)
           /\ pushed[i].data = sent[pushed[i].id]
    /\ \A i, j \in 1..Len(pushed) : i < j => pushed[i].id < pushed[j].id

(* C7 witness: two units pushed in two different cycles, with a unit between them that
   was never pushed *)
C7_Witness ==
    /\ Len(pushed) = 2
    /\ pushed[1].id = 1
    /\ pushed[2].id = 3
    /\ pushed[1].cycle # pushed[2].cycle

(* C8: an Eos message is handled as an Error message is: the monitor sets got_error and
   stops watching, and the supervisor, once drained, goes to the backoff and never to
   Stopped *)
C8_EosLikeError ==
    /\ [](last_report \in {"error", "eos"} => got_error /\ ~MonitorWatching)
    /\ [][(last_report \in {"error", "eos"} /\ pc = "decide" /\ pc' # pc)
             => (pc' = "backoff")]_vars

(* C8 witness: a cycle that ended on an Eos message has reached the backoff *)
C8_Witness == last_report = "eos" /\ pc = "backoff" /\ got_error

-----------------------------------------------------------------------------
(* Properties of the decoder *)

(* where the builder of the buffer put the fields *)
FrameIdAt == HeaderLen + 12

DataAt(w) == AlignUp(FrameIdAt + Len(w.fid)) + 4

FormatAt(w) == AlignUp(DataAt(w) + Len(w.data)) + 4

(* a field of n bytes at start does not fit a buffer of cut bytes *)
Exceeds(start, n, cut) == n.hi > 0 \/ start + n.lo > cut

Honest(n, field) == n = U32(0, Len(field))

(* by the layout of the wire format alone: a 4-byte integer or a declared length of the
   buffer built from w extends past its end (a field is looked at when the fields
   before it declare their true lengths, so that it lies where it was put) *)
WireOverruns(w) ==
    /\ w.cut >= HeaderLen
    /\ \/ w.cut < FrameIdAt
       \/ Exceeds(FrameIdAt, w.fid_decl, w.cut)
       \/ /\ Honest(w.fid_decl, w.fid)
          /\ \/ w.cut < DataAt(w)
             \/ Exceeds(DataAt(w), w.data_decl, w.cut)
             \/ /\ Honest(w.data_decl, w.data)
                /\ \/ w.cut < FormatAt(w)
                   \/ Exceeds(FormatAt(w), w.fmt_decl, w.cut)

(* C9: decode never panics, it returns None for every buffer in which a declared
   length or a 4-byte integer read extends past the end, and the fields of a record it
   returns lie inside the buffer *)
C9_OverrunFails ==
    result # DecodePending /\ result # DecodeIdle =>
        /\ result.kind # "Panic"
        /\ WireOverruns(wire) => result.kind = "None"
        /\ result.kind = "Some" =>
               /\ result.fid_end <= Len(buf)
               /\ result.data_end <= Len(buf)
               /\ result.fmt_end <= Len(buf)

(* C9 witness: a complete buffer whose data field declares the largest u32 was decoded
   and refused *)
C9_Witness ==
    /\ result = DecodeNone
    /\ wire.cut = Len(WireFull(wire))
    /\ Honest(wire.fid_decl, wire.fid)
    /\ wire.data_decl.hi > 0
    /\ Len(wire.data) > 0

(* a complete buffer in which only the frame_id is empty and declares length 0 *)
ZeroFrameId(w) ==
    /\ w.fid = << >> /\ IsZero(w.fid_decl)
    /\ Honest(w.data_decl, w.data)
    /\ w.fmt # << >> /\ Honest(w.fmt_decl, w.fmt)
    /\ w.cut = Len(WireFull(w))

(* a complete buffer in which only the format is empty and declares length 0 *)
ZeroFormat(w) ==
    /\ w.fmt = << >> /\ IsZero(w.fmt_decl)
    /\ w.fid # << >> /\ Honest(w.fid_decl, w.fid)
    /\ Honest(w.data_decl, w.data)
    /\ w.cut = Len(WireFull(w))

(* C10: a buffer whose frame_id declares length 0, or whose format declares length 0,
   is refused even when the rest of the buffer is well formed *)
C10_ZeroLengthTextRefused ==
    result # DecodePending /\ result # DecodeIdle /\ (ZeroFrameId(wire) \/ ZeroFormat(wire))
        => result.kind = "None"

(* a buffer built by the rules of the wire format: frame_id and format end with their
   terminator, every field declares its true length, nothing is cut off *)
ValidWire(w) ==
    /\ w.fid # << >> /\ w.fid[Len(w.fid)] = 0
    /\ \E t \in FormatTexts : w.fmt = to_utf8(t) \o << 0 >>
    /\ Honest(w.fid_decl, w.fid)
    /\ Honest(w.data_decl, w.data)
    /\ Honest(w.fmt_decl, w.fmt)
    /\ w.cut = Len(WireFull(w))

(* C11: round trip: decode of a buffer built by the rules of the wire format, in
   either byte order, returns the data bytes and the format text it was built from *)
C11_RoundTrip ==
    result # DecodePending /\ result # DecodeIdle /\ ValidWire(wire) =>
        /\ result.kind = "Some"
        /\ result.data = wire.data
        /\ \A t \in FormatTexts :
               wire.fmt = to_utf8(t) \o << 0 >> => result.format = t

(* C11 witness: a big-endian buffer with 3 data bytes (padding before the format
   length) and a two-byte character in the format was decoded to a record *)
C11_Witness ==
    /\ ValidWire(wire)
    /\ ~wire.le
    /\ Len(wire.data) = 3
    /\ wire.fmt = << 195, 169, 0 >>
    /\ result.kind = "Some"
    /\ result.format = << 233 >>

(* a buffer with a whole header whose first integer is cut off after 2 bytes *)
TruncatedSample == WireHeader(TRUE) \o << 7, 0 >>

(* C12: decode of a buffer shorter than 4 bytes does not panic and fails, with a
   failure that differs from the failure it returns for a truncated buffer *)
C12_TooShortKind ==
    result # DecodePending /\ result # DecodeIdle /\ Len(buf) < HeaderLen =>
        /\ result.kind \notin {"Some", "Panic"}
        /\ result # decode_cdr_compressed_video(TruncatedSample)

(* bytes the example needs after the frame_id: one to fill its declared length of 5,
   three to bring the data length to a multiple of 4 *)
ExamplePad == AlignUp(FrameIdAt + 5) - (FrameIdAt + 4)

ExampleRecord(r) ==
    r.kind = "Some" /\ r.data = << 1, 2, 3 >> /\ r.format = << 104, 50, 54 >>

(* C13: the example buffer as written, with the format length immediately after the
   3 data bytes, decodes to data = [1, 2, 3] and format = "h26" *)
C13_ExampleAsWritten ==
    result # DecodePending /\ wire.pad = ExamplePad /\ wire.gap = 0
        => ExampleRecord(result)

(* C13 amended: the example buffer decodes to data = [1, 2, 3] and format = "h26" when
   one padding byte follows the 3 data bytes, so that the format length starts at a
   multiple of 4; as written, without that byte, decode fails whatever the padding
   after the frame_id *)
C13_ExamplePadded ==
    result # DecodePending =>
        /\ wire.pad = ExamplePad /\ wire.gap = 1 => ExampleRecord(result)
        /\ wire.gap = 0 => result = DecodeNone

(* C13 witness: the example with the padding byte after the data was decoded *)
C13_Witness ==
    /\ wire.pad = ExamplePad
    /\ wire.gap = 1
    /\ ExampleRecord(result)

(* the buffer b with the byte at the 0-based index i replaced by v *)
SetByte(b, i, v) == [b EXCEPT ![i + 1] = v]

HeaderBytes == { 0, 1, 255 }

(* C14: header byte 1 alone selects the byte order: replacing header bytes 0, 2 and 3
   never changes the result of decode, every value of byte 1 other than 1 gives the
   result of the value 0, and a buffer built by the rules of the wire format is decoded
   exactly when byte 1 is 1 for a little-endian and not 1 for a big-endian buffer *)
C14_HeaderByteOne ==
    result # DecodePending /\ result # DecodeIdle /\ Len(buf) >= HeaderLen =>
        /\ \A v0, v2, v3 \in HeaderBytes :
               decode_cdr_compressed_video(
                   SetByte(SetByte(SetByte(buf, 0, v0), 2, v2), 3, v3)) = result
        /\ \A v1 \in HeaderBytes \ {1} :
               decode_cdr_compressed_video(SetByte(buf, 1, v1))
                   = decode_cdr_compressed_video(SetByte(buf, 1, 0))
        /\ ValidWire(wire) =>
               \A v1 \in HeaderBytes :
                   (decode_cdr_compressed_video(SetByte(buf, 1, v1)).kind = "Some")
                       <=> (wire.le <=> v1 = 1)

(* C14 witness: a big-endian buffer built by the rules was decoded to a record, and is
   decoded to the same record with 255 in header bytes 0, 1, 2 and 3 *)
C14_Witness ==
    /\ ValidWire(wire)
    /\ ~wire.le
    /\ result.kind = "Some"
    /\ Len(result.data) = 3
    /\ decode_cdr_compressed_video(
           SetByte(SetByte(SetByte(SetByte(buf, 0, 255), 1, 255), 2, 255), 3, 255))
         = result

-----------------------------------------------------------------------------
(* Properties of the keyframe scanner *)

KeyframeType(byte) == (byte % 32) \in {5, 7}

(* the unit contains a start code 00 00 01 (alone or as the end of 00 00 00 01)
   immediately followed by a byte of type 5 or 7 *)
HasKeyframeStart(data) ==
    \E i \in 1..Len(data) :
        /\ i + 3 <= Len(data)
        /\ data[i] = 0 /\ data[i + 1] = 0 /\ data[i + 2] = 1
        /\ KeyframeType(data[i + 3])

(* C15: the scanner returns true exactly for the units that contain a 3-byte or 4-byte
   start code immediately followed by a byte of type 5 or 7, wherever the start code
   lies, the last bytes of the unit included *)
C15_ScanExact ==
    result # DecodePending => (result.keyframe <=> HasKeyframeStart(buf))

-----------------------------------------------------------------------------
(* Properties of the frame sink *)

(* C16: the frame the consumer keeps at the end of a poll that has emptied the channel
   is the last frame the backend produced, also after a burst of frames between two
   polls *)
C16_LatestFrameKept ==
    upd = "show" /\ rgba_rx = << >> /\ latest_frame # NoFrame
        => latest_frame = frames_made

(* C17: the frame channel never holds more than its capacity of 2 frames, and the
   callback completes at every fill level: with a full channel its step is possible
   and leaves the channel as it is *)
C17_SinkBounded ==
    /\ [](Len(rgba_rx) <= rgba_capacity)
    /\ [](frames_made < MaxFrames => ENABLED new_sample)
    /\ [][(frames_made' # frames_made /\ Len(rgba_rx) = rgba_capacity)
             => (rgba_rx' = rgba_rx)]_vars

(* C17 witness: the callback has run on a full channel (frame 3 was dropped) and the
   channel holds frames 1 and 2 *)
C17_Witness ==
    /\ frames_made = 3
    /\ rgba_rx = << 1, 2 >>

-----------------------------------------------------------------------------
(* Properties of the backend selection *)

(* the fixed list: the hardware candidates, then the software fallback *)
Candidates == << "vah264dec", "vaapih264dec", "nvh264dec", "vtdec", "avdec_h264" >>

FirstCandidate(avail) ==
    IF \A i \in 1..Len(Candidates) : Candidates[i] \notin avail THEN NoDecoder
    ELSE LET first == CHOOSE i \in 1..Len(Candidates) :
                          /\ Candidates[i] \in avail
                          /\ \A j \in 1..(i - 1) : Candidates[j] \notin avail
         IN  Candidates[first]

(* C18: in both drafts every build uses the first candidate of the fixed list that can
   be instantiated at that build (the registry changes only during the backoff), and
   the build fails only when no candidate can be instantiated *)
C18_SelectionOrder ==
    /\ pc \notin {"build", "backoff", "panicked"}
           => decoder_name = FirstCandidate(available)
    /\ pc = "panicked" => FirstCandidate(available) = NoDecoder

(* C19: when no decoder can be instantiated at a build, the supervisor ends there
   without a new handle in the holder and without a Playing pipeline, and the process
   ends: neither the ingest thread nor the consumer takes another step *)
C19_FatalEndsProcess ==
    /\ [](pc = "panicked" =>
             builds \notin playing /\ pipeline_holder \in {NoPipeline, builds})
    /\ [][pc = "panicked" =>
             (pc' = pc /\ sent' = sent /\ tx_alive' = tx_alive /\ upd' = upd)]_vars

-----------------------------------------------------------------------------
(* Properties of the ingest loop *)

(* C20: a non-empty message the wire decoder refuses is forwarded unchanged as one
   unit, the ingest loop goes on (its sender stays alive), and the step changes
   neither the supervisor's position nor its error flag *)
C20_RawFallback ==
    [][(count' # count /\ buf' # << >>
          /\ decode_cdr_compressed_video(buf').kind # "Some")
         => (/\ sent' = Append(sent, buf')
             /\ pc \notin {"stopped", "panicked"}
                    => h264_rx' = Append(h264_rx, [id |-> Len(sent) + 1, data |-> buf',
                                                   at |-> Started])
             /\ tx_alive'
             /\ pc' = pc
             /\ got_error' = got_error
             /\ reported' = reported)]_vars

(* C20 witness: after a message cut inside its data was refused and forwarded raw, the
   loop took the next message, a whole one, and forwarded its data *)
C20_Witness ==
    /\ count = 2
    /\ sent = << SubSeq(GoodPayload, 1, 26), << 1, 2, 3 >> >>
    /\ tx_alive

-----------------------------------------------------------------------------
(* Further properties of the supervisor *)

(* C21: after the monitor has reported an error or an end of stream, the supervisor
   eventually completes the teardown, joins its sub-thread, waits the backoff and is
   back at the build step, whether or not another unit arrives *)
C21_TeardownCompletes ==
    [](got_error /\ pc \notin {"build", "start"} => <>(pc = "build"))

(* C22: no unit that was enqueued before a pipeline started Playing (during the
   teardown, the backoff or the build before it) is pushed into that pipeline: every
   push into a pipeline built by a restart carries a unit enqueued after that pipeline
   was set to Playing *)
C22_FreshAfterRestart ==
    \A i \in 1..Len(pushed) :
        pushed[i].cycle > 1 => pushed[i].at = pushed[i].cycle

(* the number of pushes before the i-th that went into the same pipeline *)
PushedBefore(i) ==
    Cardinality({j \in 1..(i - 1) : pushed[j].cycle = pushed[i].cycle})

(* C23: within one cycle the k-th unit pushed carries the timestamp (k-1) * 33,333,333 ns
   and the duration 33,333,333 ns; units the gate discards do not advance the timestamp,
   and the timestamp starts again at 0 in every cycle *)
C23_Timestamps ==
    \A i \in 1..Len(pushed) :
        /\ pushed[i].pts = PushedBefore(i) * 33333333
        /\ pushed[i].duration = 33333333

C23_Witness ==
    /\ variant = DecodeLoop
    /\ Len(pushed) >= 2
    /\ pushed[1].id = 2
    /\ pushed[1].pts = 0
    /\ pushed[2].cycle = pushed[1].cycle
    /\ pushed[2].pts = 33333333

(* C24: in one update the consumer empties the channel without blocking, shows only the
   last frame it received in that update, counts every frame it received in frame_count,
   and leaves the texture (the image and the resolution set with it) as it was when it
   received none. Step by step: the update starts with no frame kept; while it polls,
   a poll is always possible, every poll of a non-empty channel takes the oldest frame,
   keeps it in place of the one kept before and adds one to frame_count, and only a poll
   of an empty channel ends the polling; the texture changes only at the end, to the
   frame kept, and not at all when none was kept *)
C24_UpdateEffect ==
    /\ [](upd = "drain" => ENABLED UpdateTryRecv)
    /\ [][(upd = "idle" /\ upd' = "drain") => (latest_frame' = NoFrame)]_vars
    /\ [][(upd = "drain" /\ frames_made' = frames_made)
             => IF rgba_rx # << >>
                THEN /\ rgba_rx' = Tail(rgba_rx)
                     /\ latest_frame' = Head(rgba_rx)
                     /\ frame_count' = frame_count + 1
                     /\ upd' = "drain"
                     /\ texture' = texture
                ELSE /\ upd' = "show"
                     /\ rgba_rx' = rgba_rx
                     /\ latest_frame' = latest_frame
                     /\ frame_count' = frame_count
                     /\ texture' = texture]_vars
    /\ [][(upd = "show" /\ frames_made' = frames_made)
             => /\ texture' = (IF latest_frame = NoFrame THEN texture ELSE latest_frame)
                /\ frame_count' = frame_count
                /\ rgba_rx' = rgba_rx]_vars

(* an update that received two frames and is about to show the second *)
C24_Witness ==
    /\ upd = "show"
    /\ texture = NoFrame
    /\ frame_count = 2
    /\ latest_frame = 2

(* C25: the consumer's shutdown is final: once VideoPlayerApp::drop has taken the handle
   and stopped the pipeline, no pipeline is Playing in any later state *)
C25_ShutdownFinal ==
    cancelled => playing = {}

(* C26: publish before start: whenever the supervisor's current pipeline is Playing and
   the consumer has not taken the handle, the holder refers to exactly that pipeline *)
C26_PublishBeforeStart ==
    builds \in playing /\ ~app_dropped => pipeline_holder = builds

(* the pipeline of a restart is Playing and published *)
C26_Witness ==
    /\ builds = 2
    /\ builds \in playing
    /\ ~app_dropped
    /\ pipeline_holder = 2

(* C27: every unit the ingest loop enqueues is non-empty: an empty payload is skipped,
   a decoded record with empty data forwards nothing, and the raw fallback is taken
   only for a non-empty payload *)
C27_UnitsNonEmpty ==
    /\ \A i \in 1..Len(sent) : sent[i] # << >>
    /\ \A i \in 1..Len(h264_rx) : h264_rx[i].data # << >>

(* a message decoded to a record without data has been handled and forwarded nothing,
   next to a message that was forwarded *)
C27_Witness ==
    /\ buf = EmptyDataPayload
    /\ result.kind = "Some"
    /\ result.data = << >>
    /\ count = 2
    /\ Len(sent) = 1

(* C28: the keyframe scan terminates on every input (it tests its loop condition at
   most once per byte and once more), never reads an index at or beyond the length of
   the unit, moves its index strictly forward by 4, 3 or 1 in every turn, and returns
   false for every unit of at most 4 bytes, the empty unit included *)
C28_ScanBounded ==
    result # DecodePending =>
        LET path == ScanPath(buf, 0)
        IN  /\ Len(path) <= Len(buf) + 1
            /\ \A k \in 1..(Len(path) - 1) : path[k + 1] - path[k] \in {1, 3, 4}
            /\ \A r \in ScanReads(buf) : r >= 0 /\ r < Len(buf)
            /\ (Len(buf) <= 4 => ~result.keyframe)

(* a scanned unit on which the index moved by 1 and then by 3 *)
C28_Witness ==
    /\ result # DecodePending
    /\ ScanPath(buf, 0) = << 0, 1, 4 >>
    /\ ScanReads(buf) = {0, 1, 2, 3, 4}

(* the frame the consumer received last, in this update or in an earlier one *)
LastReceived == IF latest_frame # NoFrame THEN latest_frame ELSE texture

(* C29: when the channel is full the callback's enqueue drops the new frame and leaves
   the queued frames as they are; the frames the consumer receives are a subsequence of
   the decoded frames in decode order: every frame it receives is a decoded frame newer
   than every frame it received before, and the frames waiting in the channel are in
   decode order and newer than every frame received *)
C29_DropNewestInOrder ==
    /\ [][(frames_made' # frames_made /\ Len(rgba_rx) = rgba_capacity)
             => (rgba_rx' = rgba_rx /\ frame_count' = frame_count)]_vars
    /\ [][(frame_count' # frame_count)
             => (/\ latest_frame' = Head(rgba_rx)
                 /\ latest_frame' > LastReceived
                 /\ latest_frame' <= frames_made)]_vars
    /\ [](\A i \in 1..Len(rgba_rx) :
             /\ rgba_rx[i] > LastReceived
             /\ rgba_rx[i] <= frames_made
             /\ (i > 1 => rgba_rx[i - 1] < rgba_rx[i]))

(* the third frame was dropped at the full channel; the consumer has received the
   frames 1, 2 and 4 *)
C29_Witness ==
    /\ frames_made = 4
    /\ frame_count = 3
    /\ latest_frame = 4
    /\ rgba_rx = << >>

(* C30: at most one thread receives from the unit queue at any time and there is at
   most one pump and one bus monitor per cycle: the cycle's sub-thread has terminated
   and been joined before the supervisor drains the queue, and none exists while the
   supervisor decides, waits, builds the next pipeline and until it starts it *)
C30_OneReceiver ==
    pc \in {"drain", "decide", "backoff", "build", "start", "stopped"}
        => bus_thread = "idle" /\ pump = "idle"

(* the supervisor drains the queue of the second cycle after its pump has ended *)
C30_Witness ==
    /\ variant = DecodeLoop
    /\ pc = "drain"
    /\ builds = 2
    /\ pump = "idle"

=============================================================================
